---- MODULE Spec2Model ----
(***************************************************************************)
(* Model of the Grok sidecar bridge (GrokSidecarClient), the content       *)
(* generator and tooling support that drive it, and the tool scheduler     *)
(* hook.  The host is a single-threaded event loop: a macrotask (a line    *)
(* read from the worker, an exit event, a caller starting an operation)    *)
(* runs only when no promise continuation (microtask) is runnable.         *)
(***************************************************************************)
EXTENDS Integers, Sequences, FiniteSets, TLC

\* ---------------------------------------------------------------- bounds
MaxCalls == 3    \* requests issued through callWithStream
MaxProcs == 2    \* worker processes spawned
MaxTasks == 2    \* operations started by callers
MaxEvents == 2   \* event lines emitted on the stream of a streamed chat
MaxBridgeEvents == 1  \* event lines emitted per call when no consumer runs
MaxBatches == 2  \* batches of tool-call requests handed to the scheduler
MaxBatchSize == 2  \* requests in one batch
MaxTokens == 2   \* words typed after /agent
MaxSwitches == 3 \* calls of config.setModelProvider
MaxInvocations == 2 \* web tool invocations

VARIABLES
  child,                  \* GrokSidecarClient.child: 0 = undefined, else a process
  initialized,            \* GrokSidecarClient.initialized
  pending,                \* GrokSidecarClient.pending: requestId -> call
  calls,                  \* every callWithStream invocation, in issue order
  procs,                  \* every spawned worker process
  tasks,                  \* operations of GrokContentGenerator / GrokToolingSupport
  initialisationPromise,  \* GrokToolingSupport.initialisationPromise
  gens,                   \* stream generators, keyed by the chat call
  dropped,                \* the last input that found no pending correlation
  toolCalls,              \* the scheduler's calls of the current batch
  signal,                 \* the batch's AbortSignal: TRUE once aborted
  policy,                 \* ambient approval policy: "default" or "always"
  toolCallsForDisplay,    \* useReactToolScheduler: the tracked calls
  onComplete,             \* the arguments onComplete has been called with
  activeProviderId,       \* config.getModelProviderId()
  persisted,              \* the model.provider setting written by setValue
  setModelProvider,       \* the arguments config.setModelProvider was called with
  message,                \* the message the last /agent command returned
  env,                    \* which candidate runtimes are set and pass --version
  pythonExecutable,       \* GrokSidecarClient.pythonExecutable: "" = undefined
  generatorModel,         \* the inputs and the model of the last generator made
  approvalMode,           \* config.getApprovalMode()
  invocations,            \* the web tool invocations built so far
  toolingResult           \* the last worker payload and what was made of it

bridgeVars == <<child, initialized, pending, calls, procs, tasks,
                initialisationPromise, gens, dropped>>

schedVars == <<toolCalls, signal, policy, toolCallsForDisplay, onComplete>>

vars == <<child, initialized, pending, calls, procs, tasks,
          initialisationPromise, gens, dropped,
          toolCalls, signal, policy, toolCallsForDisplay, onComplete,
          activeProviderId, persisted, setModelProvider, message,
          env, pythonExecutable, generatorModel, approvalMode, invocations,
          toolingResult>>

agentVars == <<activeProviderId, persisted, setModelProvider, message>>

runtimeVars == <<env, pythonExecutable, generatorModel>>

webVars == <<approvalMode, invocations, toolingResult>>

\* what neither the bridge's callers nor the scheduler touch
otherVars == <<agentVars, runtimeVars, webVars>>

\* ------------------------------------------------------------ vocabulary
NoReason == <<"none">>
AbortError == <<"AbortError", "The operation was aborted.">>
DisposeError == <<"Error", "Sidecar process terminated">>
NoValue == [kind |-> "none", usage |-> 0]

\* what a worker may put in the payload of a result line
Payloads == {[kind |-> "object", usage |-> 10],
             [kind |-> "undefined", usage |-> 0]}

\* result payloads of a worker that answers as the contract says:
\* objects, with two usage values
ChatPayloads == {[kind |-> "object", usage |-> 10],
                 [kind |-> "object", usage |-> 20]}

\* what a worker may put in the payload of an event line
BridgeEvents == {[event |-> "delta", data |-> "Hel"]}

EventPayloads == {[event |-> "delta", data |-> "Hel"],
                  [event |-> "delta", data |-> "lo"],
                  [event |-> "delta", data |-> ""],
                  [event |-> "toolCall", data |-> "f"]}

\* (code, signal) pairs node reports on 'exit'
ExitStatuses == {[code |-> "1", signal |-> "null"],
                 [code |-> "null", signal |-> "SIGTERM"]}

Range(f) == {f[x] : x \in DOMAIN f}

Remove_kept(f, k) == f

Remove(f, k) == [x \in DOMAIN f \ {k} |-> f[x]]

\* ------------------------------------------------------------ the bridge
randomUUID_reused == Cardinality(DOMAIN pending) + 1

\* a requestId never issued before
randomUUID == Len(calls) + 1

\* the error the exit handler builds from (code, signal)
exitReason(status) ==
  IF status.signal # "null"
    THEN <<"Sidecar exited due to signal", status.signal>>
    ELSE <<"Sidecar exited with code", status.code>>

\* ensureProcess: reuse this.child, else spawn
ensureProcess == IF child # 0 THEN child ELSE Len(procs) + 1

procsAfterEnsure ==
  IF child # 0 THEN procs
  ELSE Append(procs, [exited |-> FALSE, killed |-> FALSE, dead |-> FALSE])

\* has process p answered an initialize request with an object result
Handshaken(p) ==
  \E c \in DOMAIN calls :
     /\ calls[c].action = "initialize"
     /\ calls[c].proc = p
     /\ calls[c].st = "resolved"
     /\ calls[c].value.kind = "object"

\* the outcome of child.stdin.write(...) on the process ensureProcess returns
stdinWrite == IF child # 0 /\ procs[child].dead THEN "EPIPE" ELSE "ok"

CanIssue ==
  /\ Len(calls) < MaxCalls
  /\ child = 0 => Len(procs) < MaxProcs

\* the record callWithStream creates; listen: the caller attaches
\* 'event' / 'end' / 'error' listeners to the returned stream
newCall(action, listen) ==
  [requestId |-> randomUUID, action |-> action, proc |-> ensureProcess,
   st |-> "pending", reason |-> NoReason, value |-> NoValue,
   listeners |-> listen, fin |-> "idle", nEnd |-> 0, emitted |-> <<>>,
   \* history: settlements of the promise, events emitted after the first
   \* one, and whether the process had completed a handshake at the write
   \* and whether a malformed line was the last input dropped when a
   \* line settled the call
   nSettle |-> 0, late |-> 0,
   handshook |-> (child # 0 /\ Handshaken(child)),
   afterDrop |-> FALSE,
   \* child.stdin.write: a write to the pipe of a process that has died
   \* fails with EPIPE, reported later by an 'error' event on child.stdin
   write |-> stdinWrite]

callsAfterCall(action, listen) == Append(calls, newCall(action, listen))

pendingAfterCall ==
  [r \in DOMAIN pending \cup {randomUUID} |->
     IF r = randomUUID THEN Len(calls) + 1 ELSE pending[r]]

\* resolve / reject of a call's result promise; the then/catch reaction
\* that runs finalize is queued as a microtask
settle(cs, c, st, reason, value) ==
  [cs EXCEPT ![c].st = st, ![c].reason = reason, ![c].value = value,
             ![c].fin = "queued", ![c].nSettle = @ + 1]

rejectAll_forgotten(cs, reason) == cs

\* reject every entry of the pending map
rejectAll(cs, reason) ==
  [c \in DOMAIN cs |->
     IF c \in Range(pending)
       THEN settle(cs, c, "rejected", reason, NoValue)[c]
       ELSE cs[c]]

\* ------------------------------------------------- the stream generator
newGen ==
  [queue |-> <<>>, ended |-> FALSE, errorFromStream |-> NoReason,
   gst |-> "suspended", yielded |-> <<>>]

\* pendingResolve(): a generator blocked in waitForNext is resumed
wake(g) == IF g.gst = "waiting" THEN [g EXCEPT !.gst = "resuming"] ELSE g

onEvent_lifo(g, payload) == wake([g EXCEPT !.queue = <<payload>> \o @])

onEvent(g, payload) == wake([g EXCEPT !.queue = Append(@, payload)])

onEnd(g) == wake([g EXCEPT !.ended = TRUE])

onError(g, error) == wake([g EXCEPT !.errorFromStream = error, !.ended = TRUE])

\* a queued payload that makes the generator yield a chunk
Yields(e) ==
  \/ e.event = "delta" /\ e.data # ""
  \/ e.event = "toolCall"

toChunk(e) ==
  IF e.event = "delta" THEN <<"text", e.data, 0>>
  ELSE <<"functionCall", e.data, 0>>

toGenerateContentResponse(value) == <<"terminal", "", value.usage>>

RECURSIVE skipSilent(_)
skipSilent(q) ==
  IF q = <<>> THEN q
  ELSE IF Yields(Head(q)) THEN q
  ELSE skipSilent(Tail(q))

\* -------------------------------------------------------------- scheduling
Settled(c) == calls[c].st # "pending"

\* the reaction that runs finalize was attached to the result promise
\* first, so it runs before the continuation of whoever awaits the call
Finalized(c) == calls[c].fin \in {"done", "threw"}

ContinuationReady(t) ==
  \/ tasks[t].pc \in {"awaitInit", "awaitTools", "awaitCall", "awaitShutdown"}
       /\ Settled(tasks[t].wait)
  \/ tasks[t].pc \in {"initialised", "ready"} /\ CanIssue

\* no promise reaction is runnable: the event loop takes the next macrotask
Idle ==
  /\ \A c \in DOMAIN calls : calls[c].fin # "queued"
  /\ \A t \in DOMAIN tasks : ~ContinuationReady(t)
  /\ \A c \in DOMAIN gens : gens[c].gst # "resuming"

\* ----------------------------------------------------- bridge: handlers
\* lines handleLine returns from without looking at the pending map: not
\* JSON ("unparsable"), JSON that fails isSidecarMessage ("untyped"), a
\* type other than event / result / error ("unknown")
Malformed == {"unparsable", "untyped", "unknown"}

pendingGet_oldest(r) ==
  IF pending = <<>> THEN 0
  ELSE pending[CHOOSE x \in DOMAIN pending : \A y \in DOMAIN pending : x <= y]

\* this.pending.get(requestId): 0 stands for undefined
pendingGet_settledToo(r) ==
  IF \E k \in DOMAIN calls : calls[k].requestId = r
    THEN CHOOSE k \in DOMAIN calls : calls[k].requestId = r
    ELSE 0

pendingGet(r) == IF r \in DOMAIN pending THEN pending[r] ELSE 0

\* handleLine for a line of process p that names requestId r
switch_defaultError(type) ==
  IF type \in {"event", "result"} THEN type ELSE "error"

\* the branch of switch (message.type) a line takes; "return" for a line
\* that is left before the switch, "default" for an unrecognised type
switch(type) ==
  IF type \in {"unparsable", "untyped"} THEN "return"
  ELSE IF type \in {"event", "result", "error"} THEN type
  ELSE "default"

handleLine(p, r, type, payload) ==
  LET c == pendingGet(r)
      case == switch(type) IN
  /\ p \in DOMAIN procs
  /\ type \notin Malformed =>
        \E k \in DOMAIN calls : calls[k].proc = p /\ calls[k].requestId = r
  /\ dropped' = IF type \in Malformed THEN <<type, 0>>
                ELSE IF c = 0
                  THEN <<IF case = "event" THEN "event" ELSE "handleLine", r>>
                ELSE dropped
  /\ CASE case = "event" ->
            /\ c # 0 => Len(calls[c].emitted) < MaxEvents
            /\ calls' = IF c # 0
                          THEN [calls EXCEPT
                                  ![c].emitted = Append(@, payload),
                                  ![c].late = IF calls[c].st = "pending"
                                                THEN @ ELSE @ + 1]
                          ELSE calls
            /\ gens' = IF c # 0 /\ calls[c].listeners
                         THEN [gens EXCEPT ![c] = onEvent(@, payload)]
                         ELSE gens
            /\ UNCHANGED pending
       [] case = "result" ->
            /\ calls' = IF c # 0
                          THEN [settle(calls, c, "resolved", NoReason, payload)
                                  EXCEPT ![c].afterDrop = dropped[1] \in Malformed]
                          ELSE calls
            /\ pending' = IF c # 0 THEN Remove(pending, r) ELSE pending
            /\ UNCHANGED gens
       [] case = "error" ->
            /\ calls' = IF c # 0
                          THEN [settle(calls, c, "rejected",
                                       <<"Error", IF payload # "" THEN payload
                                                  ELSE "Unknown sidecar error">>,
                                       NoValue)
                                  EXCEPT ![c].afterDrop = dropped[1] \in Malformed]
                          ELSE calls
            /\ pending' = IF c # 0 THEN Remove(pending, r) ELSE pending
            /\ UNCHANGED gens
       [] case \in {"return", "default"} ->
            UNCHANGED <<calls, pending, gens>>
  /\ UNCHANGED <<child, initialized, procs, tasks, initialisationPromise>>

\* answers of a worker to requests that are still pending
HandleLine ==
  /\ UNCHANGED <<schedVars, otherVars>>
  /\ \E p \in 1..MaxProcs, r \in DOMAIN pending :
        \/ \E v \in Payloads : handleLine(p, r, "result", v)
        \/ handleLine(p, r, "error", "boom")

\* any line a worker can send for a requestId it has been given,
\* whether or not the correlation is still pending
CallLine ==
  /\ UNCHANGED <<schedVars, otherVars>>
  /\ \E p \in 1..MaxProcs, r \in 1..MaxCalls :
        \/ /\ \A k \in DOMAIN calls :
                (calls[k].requestId = r /\ calls[k].st = "pending")
                   => Len(calls[k].emitted) < MaxBridgeEvents
           /\ \E e \in BridgeEvents : handleLine(p, r, "event", e)
        \/ \E v \in Payloads : handleLine(p, r, "result", v)
        \/ \E m \in {"boom", ""} : handleLine(p, r, "error", m)

\* result lines for any requestId a worker was given, and lines that are
\* not messages of the protocol
WorkerLine ==
  /\ UNCHANGED <<schedVars, otherVars>>
  /\ \E p \in 1..MaxProcs :
        \/ \E r \in 1..MaxCalls, v \in Payloads : handleLine(p, r, "result", v)
        \/ \E t \in {"unparsable", "untyped"} : handleLine(p, 0, t, "")
        \/ \E r \in 0..MaxCalls : handleLine(p, r, "unknown", "")

\* lines of a worker that answers initialize and streams a chat
StreamLine ==
  /\ UNCHANGED <<schedVars, otherVars>>
  /\ \E p \in 1..MaxProcs, r \in DOMAIN pending :
        \/ /\ calls[pending[r]].action = "chat"
           /\ \E e \in EventPayloads : handleLine(p, r, "event", e)
        \/ \E v \in ChatPayloads :
             /\ calls[pending[r]].action = "initialize" => v.usage = 10
             /\ handleLine(p, r, "result", v)
        \/ handleLine(p, r, "error", "boom")

\* the once('exit') handler registered by ensureProcess for process p
onExit(p, status) ==
  /\ Idle
  /\ p \in DOMAIN procs
  /\ ~procs[p].exited
  /\ calls' = rejectAll(calls, exitReason(status))
  /\ pending' = <<>>
  /\ child' = 0
  /\ initialized' = FALSE
  /\ procs' = [procs EXCEPT ![p].exited = TRUE]
  /\ UNCHANGED <<tasks, initialisationPromise, gens, dropped>>

Exit == UNCHANGED <<schedVars, otherVars>> /\ \E p \in 1..MaxProcs, s \in ExitStatuses : onExit(p, s)

\* a worker that crashes
Crash ==
  UNCHANGED <<schedVars, otherVars>> /\
  \E p \in 1..MaxProcs : onExit(p, [code |-> "1", signal |-> "null"])

\* the body of dispose()
disposeBody ==
  /\ initialized' = FALSE
  /\ procs' = IF child # 0 /\ ~procs[child].killed
                THEN [procs EXCEPT ![child].killed = TRUE]
                ELSE procs
  /\ child' = 0
  /\ calls' = rejectAll(calls, DisposeError)
  /\ pending' = <<>>

\* dispose() called by the bridge's owner
\* a worker dies; its exit event has not been delivered yet
die(p) ==
  /\ Idle
  /\ p \in DOMAIN procs
  /\ ~procs[p].exited
  /\ ~procs[p].dead
  /\ procs' = [procs EXCEPT ![p].dead = TRUE]
  /\ UNCHANGED <<child, initialized, pending, calls, tasks,
                 initialisationPromise, gens, dropped>>

Die == UNCHANGED <<schedVars, otherVars>> /\ \E p \in 1..MaxProcs : die(p)

\* the 'error' event of child.stdin after a failed write: ensureProcess
\* attaches no listener to child.stdin, so emitting it throws an uncaught
\* exception; the pending map is not consulted
stdinError(c) ==
  /\ Idle
  /\ c \in DOMAIN calls
  /\ calls[c].write = "EPIPE"
  /\ calls' = [calls EXCEPT ![c].write = "uncaught"]
  /\ UNCHANGED <<child, initialized, pending, procs, tasks,
                 initialisationPromise, gens, dropped>>

StdinError == UNCHANGED <<schedVars, otherVars>> /\ \E c \in 1..MaxCalls : stdinError(c)

dispose ==
  /\ Idle
  /\ disposeBody
  /\ UNCHANGED <<tasks, initialisationPromise, gens, dropped>>

cancelHits_unchecked(c) == TRUE

\* the cancel closure of call c: `current === pendingEntry`
cancelHits(c) ==
  /\ calls[c].requestId \in DOMAIN pending
  /\ pending[calls[c].requestId] = c

callsAfterCancel(cs, c) == settle(cs, c, "rejected", AbortError, NoValue)

\* the cancel handle chatStream returns, invoked by its holder
cancel(c) ==
  /\ Idle
  /\ c \in DOMAIN calls
  /\ calls[c].action = "chat"
  /\ calls' = IF cancelHits(c) THEN callsAfterCancel(calls, c) ELSE calls
  /\ pending' = IF cancelHits(c) THEN Remove(pending, calls[c].requestId)
                ELSE pending
  /\ dropped' = IF cancelHits(c) THEN dropped ELSE <<"cancel", c>>
  /\ UNCHANGED <<child, initialized, procs, tasks, initialisationPromise,
                 gens>>

Cancel == UNCHANGED <<schedVars, otherVars>> /\ \E c \in 1..MaxCalls : cancel(c)

\* the reaction resultPromise.then(finalize).catch(emit 'error'; finalize)
finalize(c) ==
  /\ c \in DOMAIN calls
  /\ calls[c].fin = "queued"
  /\ IF calls[c].st = "resolved"
       THEN /\ calls' = [calls EXCEPT ![c].fin = "done", ![c].nEnd = @ + 1]
            /\ gens' = IF calls[c].listeners
                         THEN [gens EXCEPT ![c] = onEnd(@)] ELSE gens
       ELSE IF calls[c].listeners
         THEN /\ calls' = [calls EXCEPT ![c].fin = "done", ![c].nEnd = @ + 1]
              /\ gens' = [gens EXCEPT
                            ![c] = onEnd(onError(@, calls[c].reason))]
         ELSE \* emit('error') without a listener throws out of the reaction
              /\ calls' = [calls EXCEPT ![c].fin = "threw"]
              /\ UNCHANGED gens
  /\ UNCHANGED <<child, initialized, pending, procs, tasks,
                 initialisationPromise, dropped>>

Finalize == UNCHANGED <<schedVars, otherVars>> /\ \E c \in 1..MaxCalls : finalize(c)

\* ------------------------------------------------ operations of callers
ensureInitialised_unguarded(apiKey) ==
  IF ~apiKey THEN "throw" ELSE "await"

\* ensureInitialised up to its first await: "return" (already initialized),
\* "throw" (no API key) or "await" (an initialize request is written)
ensureInitialised(apiKey) ==
  IF initialized THEN "return"
  ELSE IF ~apiKey THEN "throw"
  ELSE "await"

newTask(kind, pc, wait, tools) ==
  [kind |-> kind, pc |-> pc, wait |-> wait, tools |-> tools,
   aborted |-> FALSE, apiKey |-> TRUE]

\* an operation of an instance whose options hold an API key, or none
newTaskOf(apiKey, kind, pc, wait, tools) ==
  [newTask(kind, pc, wait, tools) EXCEPT !.apiKey = apiKey]

\* callWithStream without any other effect on the bridge
issue(action, listen) ==
  /\ CanIssue
  /\ calls' = callsAfterCall(action, listen)
  /\ pending' = pendingAfterCall
  /\ procs' = procsAfterEnsure
  /\ child' = ensureProcess

\* GrokContentGenerator.generateContentStream up to its first await
generateContentStream(apiKey, tools) ==
  /\ Idle
  /\ Len(tasks) < MaxTasks
  /\ CASE ensureInitialised(apiKey) = "return" ->
            /\ tasks' = Append(tasks, newTaskOf(apiKey, "gen", "initialised", 0, tools))
            /\ UNCHANGED <<calls, pending, procs, child>>
       [] ensureInitialised(apiKey) = "throw" ->
            /\ tasks' = Append(tasks, newTaskOf(apiKey, "gen", "failed", 0, tools))
            /\ UNCHANGED <<calls, pending, procs, child>>
       [] ensureInitialised(apiKey) = "await" ->
            /\ issue("initialize", FALSE)
            /\ tasks' = Append(tasks,
                   newTaskOf(apiKey, "gen", "awaitInit", Len(calls) + 1, tools))
  /\ UNCHANGED <<initialized, initialisationPromise, gens, dropped>>

GenerateContentStream ==
  UNCHANGED <<schedVars, otherVars>> /\ \E tl \in BOOLEAN : generateContentStream(TRUE, tl)

\* GrokContentGenerator.submitToolResult -> sidecar.toolResult
submitToolResult ==
  /\ Idle
  /\ Len(tasks) < MaxTasks
  /\ issue("toolResult", FALSE)
  /\ tasks' = Append(tasks,
         newTask("submitToolResult", "awaitCall", Len(calls) + 1, FALSE))
  /\ UNCHANGED <<initialized, initialisationPromise, gens, dropped>>

\* sidecar.chatStream called directly; the caller keeps the cancel handle
chatStream ==
  /\ Idle
  /\ Len(tasks) < MaxTasks
  /\ issue("chat", FALSE)
  /\ tasks' = Append(tasks,
         newTask("chatStream", "streaming", Len(calls) + 1, FALSE))
  /\ UNCHANGED <<initialized, initialisationPromise, gens, dropped>>

\* sidecar.webSearch(query, options, abortSignal) called directly
webSearch ==
  /\ Idle
  /\ Len(tasks) < MaxTasks
  /\ issue("tooling.webSearch", FALSE)
  /\ tasks' = Append(tasks,
         newTask("webSearch", "awaitCall", Len(calls) + 1, FALSE))
  /\ UNCHANGED <<initialized, initialisationPromise, gens, dropped>>

performWebSearch_unshared(apiKey) ==
  /\ Idle
  /\ Len(tasks) < MaxTasks
  /\ apiKey
  /\ IF ensureInitialised(apiKey) = "return"
       THEN /\ tasks' = Append(tasks,
                   newTaskOf(apiKey, "tooling", "ready", 0, FALSE))
            /\ initialisationPromise' = "resolved"
            /\ UNCHANGED <<calls, pending, procs, child>>
       ELSE /\ issue("initialize", FALSE)
            /\ tasks' = Append(tasks,
                   newTaskOf(apiKey, "tooling", "awaitInit", Len(calls) + 1, FALSE))
            /\ initialisationPromise' = "pending"
  /\ UNCHANGED <<initialized, gens, dropped>>

\* GrokToolingSupport.performWebSearch up to the first await of ensureReady.
\* Two instances share the sidecar: one built with an API key, whose
\* initialisationPromise is tracked, and one built without, whose
\* initialisationPromise stays undefined (ensureReady throws before the
\* assignment).
performWebSearch(apiKey) ==
  /\ Idle
  /\ Len(tasks) < MaxTasks
  /\ IF apiKey /\ initialisationPromise # "unset"
       THEN /\ tasks' = Append(tasks,
                   newTaskOf(apiKey, "tooling",
                           IF initialisationPromise = "resolved"
                             THEN "ready" ELSE "awaitReady", 0, FALSE))
            /\ UNCHANGED <<calls, pending, procs, child,
                           initialisationPromise>>
       ELSE IF ~apiKey
         THEN /\ tasks' = Append(tasks, newTaskOf(apiKey, "tooling", "failed", 0, FALSE))
              /\ UNCHANGED <<calls, pending, procs, child,
                             initialisationPromise>>
         ELSE IF ensureInitialised(apiKey) = "return"
           THEN /\ tasks' = Append(tasks,
                       newTaskOf(apiKey, "tooling", "ready", 0, FALSE))
                /\ initialisationPromise' = "resolved"
                /\ UNCHANGED <<calls, pending, procs, child>>
           ELSE /\ issue("initialize", FALSE)
                /\ tasks' = Append(tasks,
                       newTaskOf(apiKey, "tooling", "awaitInit", Len(calls) + 1, FALSE))
                /\ initialisationPromise' = "pending"
  /\ UNCHANGED <<initialized, gens, dropped>>

\* continuation of ensureInitialised after `await this.call('initialize')`,
\* and of the caller awaiting it
resumeInit(t) ==
  LET c == tasks[t].wait
      ok == calls[c].st = "resolved"
      waiters == {u \in DOMAIN tasks : tasks[u].pc = "awaitReady"} IN
  /\ t \in DOMAIN tasks
  /\ tasks[t].pc = "awaitInit"
  /\ Finalized(c)
  /\ initialized' = IF ok /\ calls[c].value.kind = "object"
                      THEN TRUE ELSE initialized
  /\ IF tasks[t].kind = "gen"
       THEN /\ tasks' = [tasks EXCEPT
                           ![t].pc = IF ok THEN "initialised" ELSE "failed"]
            /\ UNCHANGED initialisationPromise
       ELSE /\ tasks' = [u \in DOMAIN tasks |->
                           IF u = t
                             THEN [tasks[u] EXCEPT
                                     !.pc = IF ok THEN "ready" ELSE "failed"]
                           ELSE IF u \in waiters
                             THEN [tasks[u] EXCEPT
                                     !.pc = IF ok THEN "ready" ELSE "failed"]
                           ELSE tasks[u]]
            /\ initialisationPromise' = IF ok THEN "resolved" ELSE "unset"
  /\ UNCHANGED <<child, pending, calls, procs, gens, dropped>>

ResumeInit == UNCHANGED <<schedVars, otherVars>> /\ \E t \in 1..MaxTasks : resumeInit(t)

\* the request a caller writes once its initialisation is over:
\* registerTools, chatStream + createStreamGenerator, or tooling.webSearch
continue(t) ==
  /\ t \in DOMAIN tasks
  /\ tasks[t].pc \in {"initialised", "ready"}
  /\ CanIssue
  /\ procs' = procsAfterEnsure
  /\ child' = ensureProcess
  /\ IF tasks[t].kind = "gen"
       THEN IF tasks[t].tools
         THEN /\ calls' = callsAfterCall("registerTools", FALSE)
              /\ pending' = pendingAfterCall
              /\ tasks' = [tasks EXCEPT ![t].pc = "awaitTools",
                                        ![t].wait = Len(calls) + 1]
              /\ UNCHANGED gens
         ELSE /\ calls' = callsAfterCall("chat", TRUE)
              /\ pending' = pendingAfterCall
              /\ tasks' = [tasks EXCEPT ![t].pc = "streaming",
                                        ![t].wait = Len(calls) + 1]
              /\ gens' = [c \in DOMAIN gens \cup {Len(calls) + 1} |->
                            IF c = Len(calls) + 1 THEN newGen ELSE gens[c]]
       ELSE IF tasks[t].aborted
         THEN \* callWithAbort: abortSignal.aborted -> cancel(), reject
              /\ calls' = callsAfterCancel(
                            callsAfterCall("tooling.webSearch", FALSE),
                            Len(calls) + 1)
              /\ pending' = Remove(pendingAfterCall, randomUUID)
              /\ tasks' = [tasks EXCEPT ![t].pc = "failed",
                                        ![t].wait = Len(calls) + 1]
              /\ UNCHANGED gens
         ELSE /\ calls' = callsAfterCall("tooling.webSearch", FALSE)
              /\ pending' = pendingAfterCall
              /\ tasks' = [tasks EXCEPT ![t].pc = "awaitCall",
                                        ![t].wait = Len(calls) + 1]
              /\ UNCHANGED gens
  /\ UNCHANGED <<initialized, initialisationPromise, dropped>>

Continue == UNCHANGED <<schedVars, otherVars>> /\ \E t \in 1..MaxTasks : continue(t)

\* continuation of a caller awaiting registerTools / toolResult / tooling.*
resumeCall(t) ==
  LET ok == calls[tasks[t].wait].st = "resolved" IN
  /\ t \in DOMAIN tasks
  /\ tasks[t].pc \in {"awaitTools", "awaitCall"}
  /\ Finalized(tasks[t].wait)
  /\ tasks' = [tasks EXCEPT
                 ![t].pc = IF ~ok THEN "failed"
                           ELSE IF tasks[t].pc = "awaitTools"
                             THEN "initialised" ELSE "done",
                 ![t].tools = FALSE]
  /\ UNCHANGED <<child, initialized, pending, calls, procs,
                 initialisationPromise, gens, dropped>>

ResumeCall == UNCHANGED <<schedVars, otherVars>> /\ \E t \in 1..MaxTasks : resumeCall(t)

\* shutdown() up to its await: call('shutdown', {})
shutdown ==
  /\ Idle
  /\ Len(tasks) < MaxTasks
  /\ issue("shutdown", FALSE)
  /\ tasks' = Append(tasks,
         newTask("shutdown", "awaitShutdown", Len(calls) + 1, FALSE))
  /\ UNCHANGED <<initialized, initialisationPromise, gens, dropped>>

Shutdown == UNCHANGED <<schedVars, otherVars>> /\ shutdown

\* shutdown() after its await: the call's outcome is ignored, then dispose()
resumeShutdown(t) ==
  /\ t \in DOMAIN tasks
  /\ tasks[t].pc = "awaitShutdown"
  /\ Finalized(tasks[t].wait)
  /\ disposeBody
  /\ tasks' = [tasks EXCEPT ![t].pc = "done"]
  /\ UNCHANGED <<initialisationPromise, gens, dropped>>

ResumeShutdown ==
  UNCHANGED <<schedVars, otherVars>> /\ \E t \in 1..MaxTasks : resumeShutdown(t)

\* the abort signal handed to performWebSearch fires
abort(t) ==
  LET c == tasks[t].wait
      listening == tasks[t].pc = "awaitCall" IN
  /\ Idle
  /\ t \in DOMAIN tasks
  /\ tasks[t].kind \in {"tooling", "webSearch"}
  /\ ~tasks[t].aborted
  /\ tasks[t].pc \in {"awaitInit", "awaitReady", "awaitCall"}
  /\ tasks' = [tasks EXCEPT ![t].aborted = TRUE,
                            ![t].pc = IF listening THEN "failed" ELSE @]
  /\ calls' = IF listening /\ cancelHits(c)
                THEN callsAfterCancel(calls, c) ELSE calls
  /\ pending' = IF listening /\ cancelHits(c)
                  THEN Remove(pending, calls[c].requestId) ELSE pending
  /\ UNCHANGED <<child, initialized, procs, initialisationPromise, gens, dropped>>

Abort == UNCHANGED <<schedVars, otherVars>> /\ \E t \in 1..MaxTasks : abort(t)

\* ------------------------------------------- createStreamGenerator body
\* finally: eventStream.off(...) for the three listeners
listenersOff(c) == [calls EXCEPT ![c].listeners = FALSE]

\* the loop of the generator from its top, with the queue q in hand
runLoop(c, q) ==
  LET g == gens[c]
      rest == skipSilent(q) IN
  IF rest # <<>>
    THEN /\ gens' = [gens EXCEPT ![c].queue = Tail(rest),
                                 ![c].yielded = Append(@, toChunk(Head(rest))),
                                 ![c].gst = "suspended"]
         /\ UNCHANGED calls
    ELSE /\ gens' = [gens EXCEPT ![c].queue = <<>>,
                                 ![c].gst = IF g.ended THEN "resuming"
                                            ELSE "waiting"]
         /\ UNCHANGED calls

\* the consumer calls next() on the generator
consumerPull(c) ==
  /\ c \in DOMAIN gens
  /\ gens[c].gst \in {"suspended", "final"}
  /\ IF gens[c].gst = "final"
       THEN /\ gens' = [gens EXCEPT ![c].gst = "done"]
            /\ calls' = listenersOff(c)
       ELSE runLoop(c, gens[c].queue)
  /\ UNCHANGED <<child, initialized, pending, procs, tasks,
                 initialisationPromise, dropped>>

ConsumerPull == UNCHANGED <<schedVars, otherVars>> /\ \E c \in 1..MaxCalls : consumerPull(c)

\* the consumer abandons the sequence at a yield: generator.return()
consumerReturn(c) ==
  /\ c \in DOMAIN gens
  /\ gens[c].gst \in {"suspended", "final"}
  /\ gens[c].yielded # <<>>
  /\ gens' = [gens EXCEPT ![c].gst = "returned"]
  /\ calls' = listenersOff(c)
  /\ UNCHANGED <<child, initialized, pending, procs, tasks,
                 initialisationPromise, dropped>>

ConsumerReturn == UNCHANGED <<schedVars, otherVars>> /\ \E c \in 1..MaxCalls : consumerReturn(c)

\* the generator continues after `await waitForNext()`
genResume(c) ==
  LET g == gens[c] IN
  /\ c \in DOMAIN gens
  /\ g.gst = "resuming"
  /\ IF g.errorFromStream # NoReason
       THEN /\ gens' = [gens EXCEPT ![c].gst = "threw"]
            /\ calls' = listenersOff(c)
       ELSE IF skipSilent(g.queue) = <<>> /\ g.ended
         THEN \* break; await resultPromise; yield the terminal response
              /\ Settled(c)
              /\ IF calls[c].st = "resolved" /\ calls[c].value.kind = "object"
                   THEN /\ gens' = [gens EXCEPT
                              ![c].queue = <<>>,
                              ![c].gst = "final",
                              ![c].yielded = Append(@,
                                 toGenerateContentResponse(calls[c].value))]
                        /\ UNCHANGED calls
                   ELSE /\ gens' = [gens EXCEPT ![c].queue = <<>>,
                                                ![c].gst = "threw"]
                        /\ calls' = listenersOff(c)
         ELSE runLoop(c, g.queue)
  /\ UNCHANGED <<child, initialized, pending, procs, tasks,
                 initialisationPromise, dropped>>

GenResume == UNCHANGED <<schedVars, otherVars>> /\ \E c \in 1..MaxCalls : genResume(c)

\* resolvePythonExecutable's candidates, in its order
candidates == <<"GROK_PYTHON_BIN", "PYTHON", "python", "python3">>

Init ==
  /\ child = 0
  /\ initialized = FALSE
  /\ pending = <<>>
  /\ calls = <<>>
  /\ procs = <<>>
  /\ tasks = <<>>
  /\ initialisationPromise = "unset"
  /\ gens = <<>>
  /\ dropped = <<"none", 0>>
  /\ toolCalls = <<>>
  /\ signal = FALSE
  /\ policy = "default"
  /\ toolCallsForDisplay = <<>>
  /\ onComplete = <<>>
  /\ activeProviderId = "google-genai"
  /\ persisted = "unset"
  /\ setModelProvider = <<>>
  /\ message = <<"none", "", "">>
  /\ env = [c \in Range(candidates) |-> "unset"]
  /\ pythonExecutable = ""
  /\ generatorModel = <<>>
  /\ approvalMode = "DEFAULT"
  /\ invocations = <<>>
  /\ toolingResult = <<>>

Dispose == UNCHANGED <<schedVars, otherVars>> /\ dispose

SubmitToolResult == UNCHANGED <<schedVars, otherVars>> /\ submitToolResult

PerformWebSearch == UNCHANGED <<schedVars, otherVars>> /\ performWebSearch(TRUE)

ChatStream == UNCHANGED <<schedVars, otherVars>> /\ chatStream

WebSearch == UNCHANGED <<schedVars, otherVars>> /\ webSearch

\* ---- GrokContentGenerator and GrokToolingSupport sharing one bridge
Next ==
  \/ GenerateContentStream
  \/ SubmitToolResult
  \/ PerformWebSearch
  \/ ResumeInit
  \/ Continue
  \/ ResumeCall
  \/ Abort
  \/ HandleLine
  \/ Finalize
  \/ Crash
  \/ Dispose

Spec == Init /\ [][Next]_vars

\* ---- callers that use the bridge's public methods directly
NextCalls ==
  \/ ChatStream
  \/ WebSearch
  \/ SubmitToolResult
  \/ ResumeCall
  \/ Abort
  \/ Cancel
  \/ CallLine
  \/ Finalize
  \/ Exit
  \/ Dispose

SpecCalls == Init /\ [][NextCalls]_vars

\* ---- a worker whose output holds lines outside the protocol
NextLines ==
  \/ GenerateContentStream
  \/ ResumeInit
  \/ Continue
  \/ ResumeCall
  \/ WorkerLine
  \/ Finalize
  \/ Crash

SpecLines == Init /\ [][NextLines]_vars

\* ---- one streamed chat and its consumer
StartStream ==
  /\ tasks = <<>>
  /\ generateContentStream(TRUE, FALSE)
  /\ UNCHANGED <<schedVars, otherVars>>

NextStream ==
  \/ StartStream
  \/ ResumeInit
  \/ Continue
  \/ StreamLine
  \/ Finalize
  \/ Cancel
  \/ Crash
  \/ Dispose
  \/ ConsumerPull
  \/ ConsumerReturn
  \/ GenResume

SpecStream == Init /\ [][NextStream]_vars

\* ===================================================================
\* Tool scheduler: the useReactToolScheduler hook and the scheduler it
\* constructs
\* ===================================================================
TerminalStatuses == {"success", "error", "cancelled"}

Terminal(tc) == tc.status \in TerminalStatuses

\* what a request asks for: a tool that fails validation, a tool that
\* runs unasked, a tool that reports that it needs confirmation
RequestKinds == {"invalid", "plain", "confirm"}

Batches ==
  UNION {[1..n -> RequestKinds] : n \in 1..MaxBatchSize}

batchNo == IF toolCalls = <<>> THEN 0 ELSE toolCalls[1].batch

\* prevTrackedCalls.find((ptc) => ptc.request.callId === callId)
find(prevTrackedCalls, callId) ==
  LET hits == {j \in DOMAIN prevTrackedCalls :
                 prevTrackedCalls[j].callId = callId} IN
  IF hits = {} THEN 0
  ELSE CHOOSE j \in hits : \A k \in hits : j <= k

toolCallsUpdateHandler_stale(prevTrackedCalls, updatedCoreToolCalls) ==
  [k \in DOMAIN updatedCoreToolCalls |->
     LET coreTc == updatedCoreToolCalls[k]
         existing == find(prevTrackedCalls, coreTc.callId) IN
     IF existing # 0 THEN prevTrackedCalls[existing]
     ELSE [callId |-> coreTc.callId,
           batch |-> coreTc.batch,
           status |-> coreTc.status,
           responseSubmittedToGemini |-> FALSE,
           liveOutput |-> "undefined"]]

toolCallsUpdateHandler_forgetful(prevTrackedCalls, updatedCoreToolCalls) ==
  [k \in DOMAIN updatedCoreToolCalls |->
     LET coreTc == updatedCoreToolCalls[k]
         existing == find(prevTrackedCalls, coreTc.callId) IN
     [callId |-> coreTc.callId,
      batch |-> coreTc.batch,
      status |-> coreTc.status,
      responseSubmittedToGemini |-> FALSE,
      liveOutput |-> IF coreTc.status = "executing" /\ existing # 0
                       THEN prevTrackedCalls[existing].liveOutput
                       ELSE "undefined"]]

\* the display list after a snapshot of the scheduler's calls
toolCallsUpdateHandler(prevTrackedCalls, updatedCoreToolCalls) ==
  [k \in DOMAIN updatedCoreToolCalls |->
     LET coreTc == updatedCoreToolCalls[k]
         existing == find(prevTrackedCalls, coreTc.callId)
         responseSubmittedToGemini ==
           IF existing = 0 THEN FALSE
           ELSE prevTrackedCalls[existing].responseSubmittedToGemini IN
     [callId |-> coreTc.callId,
      batch |-> coreTc.batch,
      status |-> coreTc.status,
      responseSubmittedToGemini |-> responseSubmittedToGemini,
      liveOutput |-> IF coreTc.status = "executing" /\ existing # 0
                       THEN prevTrackedCalls[existing].liveOutput
                       ELSE "undefined"]]

outputUpdateHandler_anyStatus(prevCalls, toolCallId, outputChunk) ==
  [k \in DOMAIN prevCalls |->
     IF prevCalls[k].callId = toolCallId
       THEN [prevCalls[k] EXCEPT !.liveOutput = outputChunk]
       ELSE prevCalls[k]]

\* the display list after an output chunk of a tool
outputUpdateHandler(prevCalls, toolCallId, outputChunk) ==
  [k \in DOMAIN prevCalls |->
     IF prevCalls[k].callId = toolCallId /\ prevCalls[k].status = "executing"
       THEN [prevCalls[k] EXCEPT !.liveOutput = outputChunk]
       ELSE prevCalls[k]]

allToolCallsCompleteHandler_silent(log, completedToolCalls) == log

allToolCallsCompleteHandler_unlessCancelled(log, completedToolCalls) ==
  IF \E k \in DOMAIN completedToolCalls :
        completedToolCalls[k].status = "cancelled"
    THEN log ELSE Append(log, completedToolCalls)

\* await onComplete(completedToolCalls)
allToolCallsCompleteHandler(log, completedToolCalls) ==
  Append(log, completedToolCalls)

\* the display list after marking the calls named by callIdsToMark
markToolsAsSubmitted(prevCalls, callIdsToMark) ==
  [k \in DOMAIN prevCalls |->
     IF prevCalls[k].callId \in callIdsToMark
       THEN [prevCalls[k] EXCEPT !.responseSubmittedToGemini = TRUE]
       ELSE prevCalls[k]]

\* a change of the batch's state: the snapshot goes to the subscribers,
\* and the completion signal is given once every call is terminal
publish(tcs) ==
  /\ toolCalls' = tcs
  /\ toolCallsForDisplay' = toolCallsUpdateHandler(toolCallsForDisplay, tcs)
  /\ onComplete' = IF \A k \in DOMAIN tcs : Terminal(tcs[k])
                     THEN allToolCallsCompleteHandler(onComplete, tcs)
                     ELSE onComplete

\* was: the state the call was in before (history); lastChunk: the last
\* output chunk of the call in its present state (history)
setStatus(i, status) ==
  publish([toolCalls EXCEPT ![i].status = status, ![i].was = toolCalls[i].status,
                            ![i].lastChunk = "undefined"])

\* schedule(request, signal): void scheduler.schedule(request, signal);
\* a batch is handed over for a model turn, after the previous turn's
\* batch has completed
schedule(request) ==
  /\ batchNo < MaxBatches
  /\ \A k \in DOMAIN toolCalls : Terminal(toolCalls[k])
  /\ signal' = FALSE
  /\ publish([k \in DOMAIN request |->
                [callId |-> (batchNo * MaxBatchSize) + k,
                 batch |-> batchNo + 1,
                 kind |-> request[k],
                 status |-> "validating",
                 was |-> "none",
                 lastChunk |-> "undefined"]])
  /\ UNCHANGED policy

Schedule == UNCHANGED <<bridgeVars, otherVars>> /\ \E request \in Batches : schedule(request)

\* validation: the tool is resolved and the arguments are checked
validation(i) ==
  /\ i \in DOMAIN toolCalls
  /\ toolCalls[i].status = "validating"
  /\ setStatus(i, IF toolCalls[i].kind = "invalid" THEN "error"
                  ELSE "scheduled")
  /\ UNCHANGED <<signal, policy>>

Validation == UNCHANGED <<bridgeVars, otherVars>> /\ \E i \in 1..MaxBatchSize : validation(i)

\* confirmation: asked for unless the tool or the policy waives it
confirmation(i) ==
  /\ i \in DOMAIN toolCalls
  /\ toolCalls[i].status = "scheduled"
  /\ setStatus(i, IF toolCalls[i].kind = "confirm" /\ policy # "always"
                    THEN "awaiting_approval" ELSE "executing")
  /\ UNCHANGED <<signal, policy>>

Confirmation ==
  UNCHANGED <<bridgeVars, otherVars>> /\ \E i \in 1..MaxBatchSize : confirmation(i)

\* the external resolution callback supplies an outcome
resolution(i, outcome) ==
  /\ i \in DOMAIN toolCalls
  /\ toolCalls[i].status = "awaiting_approval"
  /\ setStatus(i, IF outcome = "cancel" THEN "cancelled" ELSE "executing")
  /\ policy' = IF outcome = "proceedAlways" THEN "always" ELSE policy
  /\ UNCHANGED signal

Resolution ==
  UNCHANGED <<bridgeVars, otherVars>> /\
  \E i \in 1..MaxBatchSize, outcome \in {"proceedOnce", "proceedAlways", "cancel"} :
     resolution(i, outcome)

\* an output chunk for call i reaches the hook, whatever state the call
\* is in
liveOutput(i, outputChunk) ==
  /\ i \in DOMAIN toolCalls
  /\ toolCallsForDisplay' =
       outputUpdateHandler(toolCallsForDisplay, toolCalls[i].callId, outputChunk)
  /\ toolCalls' = IF toolCalls[i].status = "executing"
                    THEN [toolCalls EXCEPT ![i].lastChunk = outputChunk]
                    ELSE toolCalls
  /\ UNCHANGED <<signal, policy, onComplete>>

LiveOutput ==
  UNCHANGED <<bridgeVars, otherVars>> /\
  \E i \in 1..MaxBatchSize, outputChunk \in {"chunk1", "chunk2"} :
     liveOutput(i, outputChunk)

\* the tool's execute operation returns or throws
execution(i, outcome) ==
  /\ i \in DOMAIN toolCalls
  /\ toolCalls[i].status = "executing"
  /\ setStatus(i, outcome)
  /\ UNCHANGED <<signal, policy>>

Execution ==
  UNCHANGED <<bridgeVars, otherVars>> /\
  \E i \in 1..MaxBatchSize, outcome \in {"success", "error"} : execution(i, outcome)

\* the batch's cancellation token fires
cancellation ==
  /\ toolCalls # <<>>
  /\ ~signal
  /\ signal' = TRUE
  /\ IF \E k \in DOMAIN toolCalls : ~Terminal(toolCalls[k])
       THEN publish([k \in DOMAIN toolCalls |->
                       IF Terminal(toolCalls[k]) THEN toolCalls[k]
                       ELSE [toolCalls[k] EXCEPT !.status = "cancelled",
                                                 !.was = toolCalls[k].status,
                                                 !.lastChunk = "undefined"]])
       ELSE UNCHANGED <<toolCalls, toolCallsForDisplay, onComplete>>
  /\ UNCHANGED policy

Cancellation == UNCHANGED <<bridgeVars, otherVars>> /\ cancellation

\* the caller marks the calls whose responses it has sent to the model
MarkToolsAsSubmitted ==
  /\ UNCHANGED <<bridgeVars, otherVars>>
  /\ \E j \in DOMAIN toolCallsForDisplay :
        toolCallsForDisplay' =
          markToolsAsSubmitted(toolCallsForDisplay,
                               {toolCallsForDisplay[j].callId})
  /\ UNCHANGED <<toolCalls, signal, policy, onComplete>>

NextSched ==
  \/ Schedule
  \/ Validation
  \/ Confirmation
  \/ Resolution
  \/ LiveOutput
  \/ Execution
  \/ Cancellation
  \/ MarkToolsAsSubmitted

SpecSched == Init /\ [][NextSched]_vars

\* ---- shutdown of a bridge that other callers use
NextShutdown ==
  \/ WebSearch
  \/ Shutdown
  \/ ResumeCall
  \/ ResumeShutdown
  \/ HandleLine
  \/ Finalize
  \/ Exit
  \/ Dispose

SpecShutdown == Init /\ [][NextShutdown]_vars

\* promise reactions run once they are queued; nothing obliges a worker to
\* answer or to exit, nor a caller to call
FairShutdown ==
  /\ SpecShutdown
  /\ WF_vars(Finalize)
  /\ WF_vars(ResumeCall)
  /\ WF_vars(ResumeShutdown)

\* ---- calls written to a worker that may have died
NextWrite ==
  \/ WebSearch
  \/ ResumeCall
  \/ HandleLine
  \/ Finalize
  \/ Die
  \/ StdinError
  \/ Exit

SpecWrite == Init /\ [][NextWrite]_vars

\* ---- a content generator and a tooling support built without an API
\* key, sharing the bridge with ones built with a key
GenerateContentStreamNoKey ==
  /\ UNCHANGED <<schedVars, otherVars>>
  /\ \E tl \in BOOLEAN : generateContentStream(FALSE, tl)

PerformWebSearchNoKey == UNCHANGED <<schedVars, otherVars>> /\ performWebSearch(FALSE)

NextKeys ==
  \/ GenerateContentStream
  \/ GenerateContentStreamNoKey
  \/ PerformWebSearch
  \/ PerformWebSearchNoKey
  \/ ResumeInit
  \/ Continue
  \/ ResumeCall
  \/ HandleLine
  \/ Finalize
  \/ Crash

SpecKeys == Init /\ [][NextKeys]_vars

\* ---- locating the worker's runtime
\* a candidate is unset, blank, or names an executable whose --version
\* run succeeds ("ok") or fails ("bad"); python and python3 are literals
Envs ==
  {e \in [Range(candidates) -> {"unset", "blank", "ok", "bad"}] :
     e["python"] \in {"ok", "bad"} /\ e["python3"] \in {"ok", "bad"}}

RECURSIVE probe(_, _)
probe(e, cs) ==
  IF cs = <<>> THEN "throw"
  ELSE IF e[Head(cs)] = "ok" THEN Head(cs)
  ELSE probe(e, Tail(cs))

resolvePythonExecutable_last(e) ==
  probe(e, <<"python3", "python", "PYTHON", "GROK_PYTHON_BIN">>)

\* the first candidate that passes the filter and the version check
resolvePythonExecutable(e) ==
  probe(e, SelectSeq(candidates, LAMBDA c : e[c] \notin {"unset", "blank"}))

\* a unary call on a bridge that has to locate its runtime: ensureProcess
\* throws out of callWithStream before the correlation is registered
callProbing ==
  LET exe == IF pythonExecutable # "" THEN pythonExecutable
             ELSE resolvePythonExecutable(env) IN
  /\ Idle
  /\ Len(tasks) < MaxTasks
  /\ IF child = 0 /\ exe = "throw"
       THEN /\ tasks' = Append(tasks, newTask("webSearch", "failed", 0, FALSE))
            /\ UNCHANGED <<calls, pending, procs, child, pythonExecutable>>
       ELSE /\ issue("tooling.webSearch", FALSE)
            /\ tasks' = Append(tasks,
                   newTask("webSearch", "awaitCall", Len(calls) + 1, FALSE))
            /\ pythonExecutable' = IF child = 0 THEN exe ELSE pythonExecutable
  /\ UNCHANGED <<initialized, initialisationPromise, gens, dropped, env,
                 generatorModel>>

\* a call, a change of the environment, an answer, an exit
NextRuntime ==
  \/ UNCHANGED <<schedVars, agentVars, webVars>> /\ callProbing
  \/ /\ \E e \in Envs : env' = e
     /\ UNCHANGED <<bridgeVars, schedVars, agentVars, webVars,
                    pythonExecutable, generatorModel>>
  \/ UNCHANGED env /\ ResumeCall
  \/ UNCHANGED env /\ HandleLine
  \/ UNCHANGED env /\ Finalize
  \/ UNCHANGED env /\ Crash

SpecRuntime == Init /\ [][NextRuntime]_vars

\* ---- a content generator's handshake on a bridge that is shut down
NextHandshake ==
  \/ GenerateContentStream
  \/ Shutdown
  \/ ResumeInit
  \/ ResumeShutdown
  \/ Continue
  \/ HandleLine
  \/ Finalize
  \/ Crash

SpecHandshake == Init /\ [][NextHandshake]_vars

\* ---- GrokProvider: the model a content generator is made for
DEFAULT_MODEL_ID == "grok-4-fast-reasoning"

\* normalizeModel: undefined for what is not a string, blank after trim or
\* not a Grok name; the default for "auto" and the legacy aliases; else the
\* trimmed value in its own case
normalizeModel(value) ==
  LET trimmed == CASE value = "  " -> ""
                   [] value = " Grok-3 " -> "Grok-3"
                   [] OTHER -> value
      lower == IF trimmed = "Grok-3" THEN "grok-3" ELSE trimmed
      GROK_LEGACY_ALIASES ==
        {"grok-beta", "grok 1.5", "grok-1.5", "grok1.5", "grok_v1.5"}
      startsWithGrok == lower \in {"grok-beta", "grok-3", "grok-4"} IN
  IF value = "undefined" THEN "undefined"
  ELSE IF trimmed = "" THEN "undefined"
  ELSE IF lower = "auto" THEN DEFAULT_MODEL_ID
  ELSE IF lower \in GROK_LEGACY_ALIASES THEN DEFAULT_MODEL_ID
  ELSE IF ~startsWithGrok THEN "undefined"
  ELSE trimmed

\* process.env['GROK_MODEL'] ?? process.env['GROK_MODEL_ID']
getEnvModel(GROK_MODEL, GROK_MODEL_ID) ==
  normalizeModel(IF GROK_MODEL # "undefined" THEN GROK_MODEL
                 ELSE GROK_MODEL_ID)

resolveModel(getModel, GROK_MODEL, GROK_MODEL_ID) ==
  LET configModel == normalizeModel(getModel)
      envModel == getEnvModel(GROK_MODEL, GROK_MODEL_ID) IN
  IF configModel # "undefined" THEN configModel
  ELSE IF envModel # "undefined" THEN envModel
  ELSE DEFAULT_MODEL_ID

\* createContentGenerator under some configuration and environment
createContentGenerator ==
  /\ \E getModel, GROK_MODEL, GROK_MODEL_ID \in
          {"undefined", "", "  ", "gpt-4", "auto", "grok-beta", " Grok-3 ",
           "grok-4"} :
        generatorModel' =
          [getModel |-> getModel, GROK_MODEL |-> GROK_MODEL,
           GROK_MODEL_ID |-> GROK_MODEL_ID,
           model |-> resolveModel(getModel, GROK_MODEL, GROK_MODEL_ID)]
  /\ UNCHANGED <<bridgeVars, schedVars, agentVars, webVars, env,
                 pythonExecutable>>

NextModel == createContentGenerator

SpecModel == Init /\ [][NextModel]_vars

\* ---- the web tools: confirmation and execution of an invocation
\* tool.build(params)
build(kind) ==
  /\ Len(invocations) < MaxInvocations
  /\ invocations' = Append(invocations,
        [kind |-> kind, confirm |-> "none", outcome |-> "none",
         exec |-> "idle", result |-> <<>>])
  /\ UNCHANGED approvalMode

\* WebFetchToolInvocation.shouldConfirmExecute
shouldConfirmExecute(i) ==
  /\ i \in DOMAIN invocations
  /\ invocations[i].kind = "web_fetch"
  /\ invocations[i].confirm = "none"
  /\ invocations' = [invocations EXCEPT
        ![i].confirm = IF approvalMode = "AUTO_EDIT" THEN "false"
                       ELSE "details"]
  /\ UNCHANGED approvalMode

setApprovalMode_never(mode, outcome) == mode

\* the approval mode after confirmationDetails.onConfirm(outcome)
setApprovalMode(mode, outcome) ==
  IF outcome = "ProceedAlways" THEN "AUTO_EDIT" ELSE mode

\* confirmationDetails.onConfirm(outcome)
onConfirm(i, outcome) ==
  /\ i \in DOMAIN invocations
  /\ invocations[i].confirm = "details"
  /\ invocations' = [invocations EXCEPT ![i].confirm = "resolved",
                                         ![i].outcome = outcome]
  /\ approvalMode' = setApprovalMode(approvalMode, outcome)

\* getErrorMessage(error) of an Error: its message, as the pieces of text
\* it is made of
getErrorMessage(error) ==
  IF error[1] \in {"Error", "AbortError"} THEN <<error[2]>>
  ELSE <<error[1], error[2]>>

execute_rethrow(kind, settled) ==
  IF settled.ok THEN <<"returned", settled.value>>
  ELSE <<"rejected", settled.cause>>

\* execute(signal) once the tooling-support call has settled: its value,
\* or the result built in the catch block
execute(kind, settled) ==
  IF settled.ok THEN <<"returned", settled.value>>
  ELSE <<"returned",
         [llmContent |-> << <<"Error: ">>, getErrorMessage(settled.cause) >>,
          error |-> [message |-> getErrorMessage(settled.cause),
                     type |-> IF kind = "web_fetch"
                                THEN "WEB_FETCH_PROCESSING_ERROR"
                                ELSE "WEB_SEARCH_FAILED"]]>>

\* invocation i is executed: the call to the tooling support is made
executeCall(i) ==
  /\ i \in DOMAIN invocations
  /\ invocations[i].exec = "idle"
  /\ invocations[i].kind = "web_fetch" =>
        \/ invocations[i].confirm = "false"
        \/ invocations[i].outcome \in {"ProceedOnce", "ProceedAlways"}
  /\ invocations' = [invocations EXCEPT ![i].exec = "awaiting"]
  /\ UNCHANGED approvalMode

\* the tooling-support call settles and execute returns
executeReturn(i, settled) ==
  /\ i \in DOMAIN invocations
  /\ invocations[i].exec = "awaiting"
  /\ invocations' = [invocations EXCEPT
        ![i].exec = execute(invocations[i].kind, settled)[1],
        ![i].result = <<settled, execute(invocations[i].kind, settled)[2]>>]
  /\ UNCHANGED approvalMode

NextWeb ==
  /\ UNCHANGED <<bridgeVars, schedVars, agentVars, runtimeVars, toolingResult>>
  /\ \/ \E kind \in {"web_fetch", "web_search"} : build(kind)
     \/ \E i \in 1..MaxInvocations : shouldConfirmExecute(i)
     \/ \E i \in 1..MaxInvocations,
           o \in {"ProceedOnce", "ProceedAlways", "Cancel"} : onConfirm(i, o)
     \/ \E i \in 1..MaxInvocations : executeCall(i)
     \/ \E i \in 1..MaxInvocations :
           \/ executeReturn(i, [ok |-> TRUE, value |-> "adapterResult"])
           \/ \* rejected by an in-band error, an abort, a dispose, an exit
              \E cause \in {<<"Error", "boom">>, AbortError, DisposeError}
                             \cup {exitReason(st) : st \in ExitStatuses} :
                 executeReturn(i, [ok |-> FALSE, cause |-> cause])

SpecWeb == Init /\ [][NextWeb]_vars

\* ---- GrokToolingSupport: what is made of the worker's payload
\* pickString: the value when it is a string that is not blank after trim
pickString_raw(value, fallback) ==
  IF value \notin {"undefined", "null"} THEN value ELSE fallback

pickString(value, fallback) ==
  LET isString == value \notin {"undefined", "null"}
      trim == IF value \in {" ", "  "} THEN ""
              ELSE IF value = " text " THEN "text" ELSE value IN
  IF isString /\ trim # "" THEN value ELSE fallback

\* toToolResult; payload?.field is undefined for an undefined payload
toToolResult(payload, fallback) ==
  LET field(name) == IF payload.defined THEN payload[name] ELSE "undefined" IN
  [llmContent |-> pickString(field("llmContent"), fallback.fallbackContent),
   returnDisplay |-> pickString(field("returnDisplay"),
                                fallback.fallbackDisplay)]

\* summarizeText after its await
summarizeText(response, text) ==
  LET summary == IF response.defined THEN response.summary
                 ELSE "undefined" IN
  pickString(summary, text)

\* ensureCorrectFileContent after its await: a string of length > 0
ensureCorrectFileContent(response, content) ==
  LET cleaned == IF response.defined THEN response.content
                 ELSE "undefined" IN
  IF cleaned \notin {"undefined", "null", ""} THEN cleaned ELSE content

\* an operation of the tooling support goes on with the worker's payload
resumeTooling ==
  LET Values == {"undefined", "null", "", " ", "  ", " text ", "text"}
      searchFallback == [fallbackContent |-> "Unable to search for query.",
                         fallbackDisplay |-> "Web search failed."]
      fetchFallback ==
        [fallbackContent |-> "Web fetch is unavailable for the Grok provider. Please try again later.",
         fallbackDisplay |-> "Unable to fetch external content."] IN
  /\ \/ \E response \in [defined : BOOLEAN, summary : Values] :
          toolingResult' = [op |-> "summarizeText", payload |-> response,
                            result |-> summarizeText(response, "original")]
     \/ \E response \in [defined : BOOLEAN, content : Values] :
          toolingResult' = [op |-> "ensureCorrectFileContent",
                            payload |-> response,
                            result |-> ensureCorrectFileContent(response, "original")]
     \/ \E payload \in [defined : BOOLEAN, llmContent : Values,
                        returnDisplay : Values] :
          toolingResult' = [op |-> "performWebSearch", payload |-> payload,
                            result |-> toToolResult(payload, searchFallback)]
     \/ \E payload \in [defined : BOOLEAN, llmContent : Values,
                        returnDisplay : Values] :
          toolingResult' = [op |-> "performWebFetch", payload |-> payload,
                            result |-> toToolResult(payload, fetchFallback)]
  /\ UNCHANGED <<bridgeVars, schedVars, agentVars, runtimeVars,
                 approvalMode, invocations>>

NextPayload == resumeTooling

SpecPayload == Init /\ [][NextPayload]_vars

\* ===================================================================
\* /agent: inspecting and switching the model provider
\* ===================================================================
\* ModelProviderRegistryImpl: the providers its constructor registers
providers == <<"google-genai", "grok">>

defaultProviderId == providers[1]

providerIds == Range(providers)

\* the words a user may type after /agent
Tokens == {"list", "current", "use", "google-genai", "grok", "unknown"}

RawArgs == UNION {[1..n -> Tokens] : n \in 0..MaxTokens}

createMessage(messageType, content, arg) == <<messageType, content, arg>>

\* the provider id named by the tokens, "" when there is none
targetOf(tokens) ==
  IF Len(tokens) = 1 THEN tokens[1]
  ELSE IF tokens[1] \in {"use", "switch", "set"} THEN tokens[2]
  ELSE ""

providerExists_always(targetProviderId) == TRUE

\* providerIds.includes(targetProviderId)
providerExists(targetProviderId) == targetProviderId \in providerIds

agentAction_persistFirst(tokens, activates, hasSetValue) ==
  LET targetProviderId == targetOf(tokens) IN
  /\ Len(setModelProvider) < MaxSwitches
  /\ tokens \notin {<<>>, <<"list">>, <<"current">>, <<"use">>}
  /\ providerExists(targetProviderId)
  /\ setModelProvider' = Append(setModelProvider, targetProviderId)
  /\ persisted' = targetProviderId
  /\ activeProviderId' = IF activates THEN targetProviderId
                         ELSE activeProviderId
  /\ message' = IF activates
                  THEN createMessage("info", "Switched active model provider to",
                                     targetProviderId)
                  ELSE createMessage("error", "Failed to activate provider",
                                     targetProviderId)

\* agentCommand.action(context, rawArgs); activates: whether
\* config.setModelProvider resolves; hasSetValue: whether the settings
\* service has a setValue function
agentAction(tokens, activates, hasSetValue) ==
  LET say(m) == /\ message' = m
                /\ UNCHANGED <<activeProviderId, persisted, setModelProvider>>
      targetProviderId == targetOf(tokens) IN
  /\ Len(setModelProvider) < MaxSwitches
  /\ IF tokens = <<>> \/ tokens = <<"list">>
       THEN say(createMessage("info", "Available model providers:",
                              activeProviderId))
     ELSE IF tokens = <<"current">>
       THEN say(createMessage("info", "Current model provider:",
                              activeProviderId))
     ELSE IF Len(tokens) = 1 /\ tokens[1] \in {"use", "switch", "set"}
       THEN say(createMessage("error", "Specify a provider id", ""))
     ELSE IF targetProviderId = ""
       THEN say(createMessage("error", "Unrecognised agent command:", tokens[1]))
     ELSE IF ~providerExists(targetProviderId)
       THEN say(createMessage("error", "Unknown model provider:",
                              targetProviderId))
     ELSE IF targetProviderId = activeProviderId
       THEN say(createMessage("info", "is already active", targetProviderId))
     ELSE /\ setModelProvider' = Append(setModelProvider, targetProviderId)
          /\ IF activates
               THEN /\ activeProviderId' = targetProviderId
                    /\ persisted' = IF hasSetValue THEN targetProviderId
                                    ELSE persisted
                    /\ message' = createMessage("info",
                                     "Switched active model provider to",
                                     targetProviderId)
               ELSE /\ message' = createMessage("error",
                                     "Failed to activate provider",
                                     targetProviderId)
                    /\ UNCHANGED <<activeProviderId, persisted>>

AgentAction ==
  /\ UNCHANGED <<bridgeVars, schedVars, runtimeVars, webVars>>
  /\ \E tokens \in RawArgs, activates, hasSetValue \in BOOLEAN :
        agentAction(tokens, activates, hasSetValue)

NextAgent == AgentAction

SpecAgent == Init /\ [][NextAgent]_vars

\* ===================================================================
\* Properties
\* ===================================================================
ExitReasons == {exitReason(s) : s \in ExitStatuses}

Outcome(c) == <<c.st, c.reason, c.value, c.nSettle, c.emitted>>

\* C1: when a worker's exit event fires, every call still pending is
\* rejected with an error naming the exit code or the signal and the
\* pending map is emptied; afterwards no line naming such a call's
\* requestId settles a promise or emits an event.
C1_ExitRejectsPending ==
  [][/\ \A p \in DOMAIN procs :
          (~procs[p].exited /\ procs'[p].exited) =>
             /\ pending' = <<>>
             /\ \A c \in Range(pending) :
                  /\ calls'[c].st = "rejected"
                  /\ calls'[c].reason \in ExitReasons
                  /\ calls'[c].nSettle = 1
     /\ \A c \in DOMAIN calls :
          calls[c].reason \in ExitReasons =>
             /\ Outcome(calls'[c]) = Outcome(calls[c])
             /\ calls'[c].late = 0
             /\ calls'[c].requestId \notin DOMAIN pending'
    ]_vars

\* a call rejected by the exit handler for which a later line was handled
C1_Witness ==
  \E c \in DOMAIN calls :
     /\ calls[c].reason = <<"Sidecar exited due to signal", "SIGTERM">>
     /\ dropped = <<"handleLine", calls[c].requestId>>

\* how often onComplete has been called for batch b
C2_Notified(log, b) ==
  Cardinality({j \in DOMAIN log : log[j][1].batch = b})

C3_EndExactlyOnce ==
  \A c \in DOMAIN calls :
     /\ calls[c].nEnd <= 1
     /\ calls[c].nEnd = 1 => Settled(c)
     /\ Finalized(c) => calls[c].nEnd = 1

\* the chunks the consumer must see for the events emitted on a stream
RECURSIVE C4_Expected(_)
C4_Expected(evs) ==
  IF evs = <<>> THEN <<>>
  ELSE LET e == Head(evs) IN
       (IF e.event = "toolCall" THEN << <<"functionCall", e.data, 0>> >>
        ELSE IF e.data = "" THEN <<>>
        ELSE << <<"text", e.data, 0>> >>) \o C4_Expected(Tail(evs))

IsPrefix(a, b) == Len(a) <= Len(b) /\ a = SubSeq(b, 1, Len(a))

C5_TerminalAlways ==
  \A c \in DOMAIN gens :
     gens[c].gst \in {"done", "threw"} =>
        /\ gens[c].yielded # <<>>
        /\ gens[c].yielded[Len(gens[c].yielded)][1] = "terminal"
        /\ Cardinality({i \in DOMAIN gens[c].yielded :
                          gens[c].yielded[i][1] = "terminal"}) = 1

\* C6 (as claimed): a request other than initialize is written only to a
\* process that has already answered an initialize request successfully.
C6_HandshakeFirst ==
  \A c \in DOMAIN calls :
     calls[c].action # "initialize" => calls[c].handshook

\* C7 (as claimed): a worker exit leaves the bridge uninitialized (no
\* child, initialized false, nothing pending), and when the bridge has no
\* child after a worker exit, the request that generateContentStream or a
\* GrokToolingSupport method writes next, to the process it spawns, is
\* initialize.  (submitToolResult, which the claim does not name, is the
\* only other writer in this specification.)
C7_FreshHandshake ==
  [][/\ \A p \in DOMAIN procs :
          (~procs[p].exited /\ procs'[p].exited) =>
             child' = 0 /\ ~initialized' /\ pending' = <<>>
     /\ (/\ child = 0
         /\ \E p \in DOMAIN procs : procs[p].exited
         /\ Len(calls') > Len(calls))
          => calls'[Len(calls')].action \in {"initialize", "toolResult"}
    ]_vars

\* C8: with the handshake done on the current worker, an operation that
\* calls ensureInitialised (generateContentStream, or performWebSearch
\* when ensureReady holds no cached promise) writes nothing, spawns
\* nothing, leaves pending, initialized and child as they are, and goes
\* on as after a successful first call.
C8_InitialiseIdempotent ==
  [][(/\ initialized
      /\ Len(tasks') > Len(tasks)
      /\ \/ tasks'[Len(tasks')].kind = "gen"
         \/ /\ tasks'[Len(tasks')].kind = "tooling"
            /\ initialisationPromise = "unset")
       => /\ calls' = calls
          /\ procs' = procs
          /\ pending' = pending
          /\ child' = child
          /\ initialized'
          /\ tasks'[Len(tasks')].pc \in {"initialised", "ready"}
    ]_vars

\* a second generateContentStream that found the bridge initialized
C8_Witness ==
  \E t \in DOMAIN tasks :
     /\ t > 1
     /\ tasks[t].kind = "gen"
     /\ tasks[t].pc = "initialised"
     /\ tasks[t].wait = 0
     /\ initialized
     /\ child # 0

\* C9: cancelling a pending call removes exactly its correlation and
\* rejects it with the abort error, writes no request, kills no worker and
\* leaves every other call, the child and the initialized flag alone;
\* cancelling a settled call changes nothing.
C9_CancelIsLocal ==
  [][\A c \in DOMAIN calls :
       /\ (calls[c].st = "pending" /\ calls'[c].reason = AbortError) =>
             /\ calls'[c].st = "rejected"
             /\ pending' = Remove(pending, calls[c].requestId)
             /\ Len(calls') = Len(calls)
             /\ \A d \in DOMAIN calls \ {c} : calls'[d] = calls[d]
             /\ procs' = procs
             /\ child' = child
             /\ initialized' = initialized
       /\ (dropped' = <<"cancel", c>> /\ dropped # dropped') =>
             /\ Settled(c)
             /\ UNCHANGED <<calls, pending, procs, child, initialized>>
       /\ Settled(c) => Outcome(calls'[c]) = Outcome(calls[c])
    ]_vars

\* a cancelled call, cancelled once more, beside a call still pending
C9_Witness ==
  \E c, d \in DOMAIN calls :
     /\ c # d
     /\ calls[c].reason = AbortError
     /\ dropped = <<"cancel", c>>
     /\ calls[d].st = "pending"
     /\ calls[d].requestId \in DOMAIN pending

\* C10: a cancelled call is settled once and for all: its requestId
\* matches no pending correlation (so a late line that names it finds
\* nothing, not even a newer call), and no event is emitted on its stream
\* after the cancellation; requestIds are never issued twice.
C10_LateLinesDiscarded ==
  /\ \A c \in DOMAIN calls :
        calls[c].reason = AbortError =>
           /\ calls[c].requestId \notin DOMAIN pending
           /\ calls[c].nSettle = 1
           /\ calls[c].late = 0
  /\ \A c, d \in DOMAIN calls : c # d => calls[c].requestId # calls[d].requestId
  /\ \A r \in DOMAIN pending : calls[pending[r]].requestId = r

\* a line naming a cancelled call was handled while a newer call is pending
C10_Witness ==
  \E c, d \in DOMAIN calls :
     /\ c < d
     /\ calls[c].reason = AbortError
     /\ dropped = <<"handleLine", calls[c].requestId>>
     /\ calls[d].st = "pending"

\* the call that was given requestId r
C11_CallOf(r) == CHOOSE k \in DOMAIN calls : calls[k].requestId = r

\* every call but c, and the bridge's process state, are as before
C11_OnlyCall(c) ==
  /\ \A d \in DOMAIN calls \ {c} : calls'[d] = calls[d]
  /\ Len(calls') = Len(calls)
  /\ UNCHANGED <<child, initialized, procs>>

\* C11: whatever the order of arrival, a result line for a pending
\* requestId resolves the call that was given that requestId with the
\* line's payload, an error line rejects it with the line's message, and
\* neither touches another call; an event line is emitted on the stream of
\* the call that was given its requestId and settles nothing.
C11_RoutedById ==
  [][\A p \in 1..MaxProcs, r \in DOMAIN pending :
       LET c == C11_CallOf(r) IN
       /\ \A v \in Payloads :
            handleLine(p, r, "result", v) =>
               /\ calls[c].st = "pending"
               /\ calls'[c].st = "resolved"
               /\ calls'[c].value = v
               /\ calls'[c].nSettle = 1
               /\ pending' = Remove(pending, r)
               /\ C11_OnlyCall(c)
       /\ \A m \in {"boom", ""} :
            handleLine(p, r, "error", m) =>
               /\ calls[c].st = "pending"
               /\ calls'[c].st = "rejected"
               /\ calls'[c].reason =
                    <<"Error", IF m = "" THEN "Unknown sidecar error" ELSE m>>
               /\ calls'[c].nSettle = 1
               /\ pending' = Remove(pending, r)
               /\ C11_OnlyCall(c)
       /\ \A e \in BridgeEvents :
            handleLine(p, r, "event", e) =>
               /\ calls'[c].emitted = Append(calls[c].emitted, e)
               /\ calls'[c].st = calls[c].st
               /\ calls'[c].nSettle = calls[c].nSettle
               /\ pending' = pending
               /\ C11_OnlyCall(c)
    ]_vars

\* two calls were pending together; the younger has been resolved and the
\* older, still pending, has had an event emitted on its stream
C11_Witness ==
  \E c, d \in DOMAIN calls :
     /\ c < d
     /\ calls[c].st = "pending"
     /\ calls[c].emitted # <<>>
     /\ calls[d].st = "resolved"
     /\ calls[d].emitted = <<>>

\* C12: a call that is awaiting approval suspends only itself: another
\* call of the batch runs to success beside it; resolving the confirmation
\* with cancel makes the waiting call cancelled and nothing else; the
\* tracked calls show each call's state; and onComplete is not called
\* for a batch while a call of it awaits approval, and is called in the
\* step that makes its last call terminal.
C12_WaitingSuspendsItself ==
  [][/\ \A i, j \in DOMAIN toolCalls :
          (/\ i # j
           /\ toolCalls[i].status = "awaiting_approval"
           /\ execution(j, "success"))
             => /\ toolCalls'[j].status = "success"
                /\ toolCalls'[i] = toolCalls[i]
                /\ onComplete' = onComplete
     /\ \A i \in DOMAIN toolCalls :
          resolution(i, "cancel") =>
             /\ toolCalls'[i].status = "cancelled"
             /\ \A j \in DOMAIN toolCalls \ {i} : toolCalls'[j] = toolCalls[j]
             /\ (onComplete' # onComplete) <=>
                   \A j \in DOMAIN toolCalls \ {i} : Terminal(toolCalls[j])
     /\ (\E i \in DOMAIN toolCalls' :
            toolCalls'[i].status = "awaiting_approval")
          => C2_Notified(onComplete', batchNo') = 0
     /\ DOMAIN toolCallsForDisplay' = DOMAIN toolCalls'
     /\ \A k \in DOMAIN toolCalls' :
          /\ toolCallsForDisplay'[k].callId = toolCalls'[k].callId
          /\ toolCallsForDisplay'[k].status = toolCalls'[k].status
    ]_vars

\* the first call has succeeded while the second, which asked for
\* confirmation, is still waiting; nothing has been reported complete
C12_Witness ==
  /\ Len(toolCalls) = 2
  /\ toolCalls[1].kind = "plain"
  /\ toolCalls[2].kind = "confirm"
  /\ toolCallsForDisplay[1].status = "success"
  /\ toolCallsForDisplay[2].status = "awaiting_approval"
  /\ onComplete = <<>>
  /\ ~signal

\* C13: when the batch's token fires, every call that is not terminal,
\* a call waiting for confirmation included, becomes cancelled (never
\* error), terminal calls keep their state, and onComplete is called for
\* the batch in that step; once the token has fired no call of the batch
\* is left non-terminal.
C13_TokenCancelsBatch ==
  [][/\ (~signal /\ signal') =>
          /\ DOMAIN toolCalls' = DOMAIN toolCalls
          /\ \A k \in DOMAIN toolCalls :
               IF Terminal(toolCalls[k])
                 THEN toolCalls'[k] = toolCalls[k]
                 ELSE /\ toolCalls'[k].status = "cancelled"
                      /\ toolCalls'[k].was = toolCalls[k].status
          /\ (\E k \in DOMAIN toolCalls : ~Terminal(toolCalls[k]))
               => /\ onComplete' = Append(onComplete, toolCalls')
                  /\ C2_Notified(onComplete', batchNo') = 1
     /\ signal' => \A k \in DOMAIN toolCalls' : Terminal(toolCalls'[k])
     /\ \A k \in DOMAIN toolCalls' :
          (toolCalls'[k].status = "error" /\ signal')
             => toolCalls'[k].was \in {"validating", "executing"}
    ]_vars

\* a call cancelled by the token while scheduled, before it ran, and
\* reported to onComplete
C13_Witness ==
  /\ signal
  /\ Len(onComplete) = 1
  /\ \E k \in DOMAIN toolCalls :
        /\ toolCalls[k].status = "cancelled"
        /\ toolCalls[k].was = "scheduled"
        /\ onComplete[1][k].status = "cancelled"

C15_BadLinesDropped ==
  [][/\ (dropped' # dropped /\ dropped'[1] \in Malformed \cup {"handleLine"})
          => UNCHANGED <<child, initialized, pending, calls, procs, tasks,
                         initialisationPromise, gens, schedVars>>
     /\ \A p \in DOMAIN procs, r \in 0..MaxCalls, t \in Malformed :
          handleLine(p, r, t, "") =>
             UNCHANGED <<child, initialized, pending, calls, gens>>
     /\ \A p \in DOMAIN procs, r \in DOMAIN pending, v \in Payloads :
          handleLine(p, r, "result", v) =>
             /\ calls'[pending[r]].st = "resolved"
             /\ calls'[pending[r]].value = v
             /\ r \notin DOMAIN pending'
             /\ \A d \in DOMAIN calls : d # pending[r] => calls'[d] = calls[d]
    ]_vars

\* a call resolved by the line that followed a malformed one, beside a
\* call that is still pending
C15_Witness ==
  \E c, d \in DOMAIN calls :
     /\ calls[c].st = "resolved"
     /\ calls[c].afterDrop
     /\ calls[d].st = "pending"
     /\ calls[d].requestId \in DOMAIN pending

\* C16: in the step that completes shutdown(), the process the shutdown
\* request was written to has been killed or has exited, no call is left
\* pending, the pending map is empty, and the bridge is uninitialized
\* without a child.
C16_ShutdownTearsDown ==
  [][\A t \in DOMAIN tasks :
        (tasks[t].pc = "awaitShutdown" /\ tasks'[t].pc = "done") =>
           LET c == tasks[t].wait IN
           /\ calls[c].action = "shutdown"
           /\ procs'[calls[c].proc].killed \/ procs'[calls[c].proc].exited
           /\ \A d \in DOMAIN calls' : calls'[d].st # "pending"
           /\ pending' = <<>>
           /\ ~initialized'
           /\ child' = 0
    ]_vars

\* C17: a shutdown() that has been called eventually completes, whatever
\* the worker does.
C17_ShutdownCompletes ==
  \A t \in 1..MaxTasks :
     (t \in DOMAIN tasks /\ tasks[t].pc = "awaitShutdown")
        ~> (t \in DOMAIN tasks /\ tasks[t].pc = "done")

\* C18: a request written to a worker that has died, before its exit is
\* observed, never ends in an uncaught exception, and the step that
\* reports the failed write rejects that call and settles no other.
C18_DeadWriteFailsCall ==
  [][\A c \in DOMAIN calls :
        /\ calls'[c].write # "uncaught"
        /\ (calls[c].write = "EPIPE" /\ calls'[c].write # "EPIPE") =>
              /\ calls'[c].st = "rejected"
              /\ \A d \in DOMAIN calls :
                    d # c => Outcome(calls'[d]) = Outcome(calls[d])
    ]_vars

\* C19: the failure of a call is reported by the rejection of its promise
\* alone: the reaction that callWithStream attached to the promise never
\* throws; stated for the unary calls, whose stream nobody listens to.
C19_FailuresInBand ==
  \A c \in DOMAIN calls :
     (calls[c].action # "chat" /\ calls[c].st = "rejected")
        => calls[c].fin # "threw"

\* C20: an operation of a content generator built without an API key
\* fails in ensureInitialised, and an operation of a tooling support built
\* without one fails in ensureReady, in both cases without a process being
\* spawned, a request written, or pending and initialized changing.
C20_NoKeyFailsUntouched ==
  [][(/\ Len(tasks') = Len(tasks) + 1
      /\ ~tasks'[Len(tasks')].apiKey)
        => /\ tasks'[Len(tasks')].kind \in {"gen", "tooling"}
           /\ tasks'[Len(tasks')].pc = "failed"
           /\ UNCHANGED <<calls, pending, procs, child, initialized>>
    ]_vars

\* C21: no process exists before the first call; while the last process
\* spawned has neither exited nor been disposed, the next call is written
\* to it (ensureProcess returns it, nothing is spawned), so at most one
\* process that has neither exited nor been disposed exists at any time.
C21_SpawnedLazilyOnce ==
  /\ calls = <<>> => procs = <<>>
  /\ (procs # <<>> /\ ~procs[Len(procs)].exited /\ ~procs[Len(procs)].killed)
        => ensureProcess = Len(procs) /\ procsAfterEnsure = procs
  /\ Cardinality({p \in DOMAIN procs :
                    ~procs[p].exited /\ ~procs[p].killed}) <= 1

\* C22: a call on a bridge without a cached runtime caches and uses the
\* first of GROK_PYTHON_BIN, PYTHON, python, python3 that is set and passes
\* the version check; if there is none the call fails and leaves no child,
\* no correlation and no cached runtime, so that the next call probes again.
C22_FirstWorkingRuntime ==
  [][(Len(tasks') = Len(tasks) + 1 /\ child = 0 /\ pythonExecutable = "") =>
        LET working == {i \in 1..4 : env[candidates[i]] = "ok"} IN
        IF working = {}
          THEN /\ tasks'[Len(tasks')].pc = "failed"
               /\ child' = 0
               /\ pending' = pending
               /\ procs' = procs
               /\ pythonExecutable' = ""
          ELSE /\ tasks'[Len(tasks')].pc = "awaitCall"
               /\ \E i \in working :
                     /\ \A j \in working : i <= j
                     /\ pythonExecutable' = candidates[i]
               /\ child' # 0
    ]_vars

\* a call that found no runtime is followed by one that finds PYTHON,
\* GROK_PYTHON_BIN being set to something that fails the version check
C22_Witness ==
  /\ Len(tasks) = 2
  /\ tasks[1].pc = "failed"
  /\ tasks[2].pc = "awaitCall"
  /\ pythonExecutable = "PYTHON"
  /\ env["GROK_PYTHON_BIN"] = "bad"
  /\ env["python"] = "ok"

\* C23: resolving a web-fetch confirmation with ProceedAlways makes the
\* approval mode AUTO_EDIT, any other outcome leaves it as it was, and
\* once some confirmation has been resolved with ProceedAlways every
\* shouldConfirmExecute of a web-fetch invocation returns false.
C23_ProceedAlwaysSticks ==
  [][\A i \in DOMAIN invocations :
        /\ (invocations[i].confirm = "details"
              /\ invocations'[i].confirm = "resolved") =>
              approvalMode' = IF invocations'[i].outcome = "ProceedAlways"
                                THEN "AUTO_EDIT" ELSE approvalMode
        /\ (/\ invocations[i].confirm = "none"
            /\ invocations'[i].confirm # "none"
            /\ \E j \in DOMAIN invocations :
                  invocations[j].outcome = "ProceedAlways") =>
              /\ invocations'[i].confirm = "false"
              /\ approvalMode' = "AUTO_EDIT"
    ]_vars

\* an invocation that needed no confirmation after another was resolved
\* with ProceedAlways
C23_Witness ==
  \E i, j \in DOMAIN invocations :
     /\ invocations[j].outcome = "ProceedAlways"
     /\ invocations[i].confirm = "false"
     /\ approvalMode = "AUTO_EDIT"

\* C24: execute never rejects: when the tooling-support call is rejected,
\* execute returns a result whose error type is WEB_FETCH_PROCESSING_ERROR
\* (WEB_SEARCH_FAILED for web search) and whose llmContent holds the
\* cause's message.
C24_ExecuteCapturesFailure ==
  \A i \in DOMAIN invocations :
     /\ invocations[i].exec # "rejected"
     /\ (invocations[i].exec = "returned" /\ ~invocations[i].result[1].ok) =>
           LET cause == invocations[i].result[1].cause
               result == invocations[i].result[2] IN
           /\ result.error.type =
                 IF invocations[i].kind = "web_fetch"
                   THEN "WEB_FETCH_PROCESSING_ERROR" ELSE "WEB_SEARCH_FAILED"
           /\ \E k \in DOMAIN result.llmContent :
                 result.llmContent[k] = getErrorMessage(cause)

\* a web fetch and a web search whose tooling-support calls were rejected,
\* one by an abort and one by an exit of the worker
C24_Witness ==
  \E i, j \in DOMAIN invocations :
     /\ invocations[i].kind = "web_fetch"
     /\ invocations[j].kind = "web_search"
     /\ invocations[i].exec = "returned"
     /\ invocations[j].exec = "returned"
     /\ invocations[i].result[1] = [ok |-> FALSE, cause |-> AbortError]
     /\ ~invocations[j].result[1].ok
     /\ invocations[j].result[1].cause[1] = "Sidecar exited with code"

\* C25: the submitted flag of a call is set only when the call has reached
\* a terminal state (and a call already marked is not marked again).
C25_MarkedOnceWhenTerminal ==
  [][\A k \in DOMAIN toolCallsForDisplay :
        (/\ k \in DOMAIN toolCallsForDisplay'
         /\ toolCallsForDisplay'[k].callId = toolCallsForDisplay[k].callId
         /\ ~toolCallsForDisplay[k].responseSubmittedToGemini
         /\ toolCallsForDisplay'[k].responseSubmittedToGemini)
           => Terminal(toolCallsForDisplay[k])
    ]_vars

\* C26: the live output of every tracked call is the last chunk emitted
\* for that call since it began executing, and undefined for a call that is
\* not executing; a chunk changes the entry of the executing call it names
\* and nothing else.
C26_LiveOutputIsLastChunk ==
  /\ DOMAIN toolCallsForDisplay = DOMAIN toolCalls
  /\ \A k \in DOMAIN toolCallsForDisplay :
        /\ toolCallsForDisplay[k].callId = toolCalls[k].callId
        /\ toolCallsForDisplay[k].liveOutput =
              IF toolCalls[k].status = "executing"
                THEN toolCalls[k].lastChunk ELSE "undefined"

\* an executing call shows its second chunk beside a call of the batch
\* that has finished executing
C26_Witness ==
  \E k, j \in DOMAIN toolCallsForDisplay :
     /\ toolCallsForDisplay[k].status = "executing"
     /\ toolCallsForDisplay[k].liveOutput = "chunk2"
     /\ toolCalls[j].was = "executing"
     /\ toolCallsForDisplay[j].liveOutput = "undefined"

\* C27: the model of a generator is the first usable value among the
\* configured model, GROK_MODEL and GROK_MODEL_ID, in that order, and the
\* built-in default only when none of the three is usable.
C27_ModelPrecedence ==
  generatorModel # <<>> =>
    LET g == generatorModel
        usable(v) == normalizeModel(v) # "undefined" IN
    g.model = IF usable(g.getModel) THEN normalizeModel(g.getModel)
              ELSE IF usable(g.GROK_MODEL) THEN normalizeModel(g.GROK_MODEL)
              ELSE IF usable(g.GROK_MODEL_ID)
                     THEN normalizeModel(g.GROK_MODEL_ID)
              ELSE DEFAULT_MODEL_ID

\* C28: an operation of the tooling support that starts while an
\* initialisation is in flight or has succeeded starts no initialisation
\* of its own and waits for (or goes on after) the shared one; at most one
\* initialisation of the instance is in flight; an operation becomes ready
\* to send its request only under a succeeded initialisation; when the
\* initialisation fails every operation waiting on it fails, and the next
\* operation starts a new attempt.
C28_SharedInitialisation ==
  [][LET tooling(ts) == {t \in DOMAIN ts : ts[t].kind = "tooling" /\ ts[t].apiKey}
         waiting(ts) == {t \in tooling(ts) :
                           ts[t].pc \in {"awaitInit", "awaitReady"}}
         n == Len(tasks')
         started == /\ n = Len(tasks) + 1
                    /\ n \in tooling(tasks') IN
     /\ (started /\ initialisationPromise # "unset") =>
           /\ calls' = calls
           /\ initialisationPromise' = initialisationPromise
           /\ tasks'[n].pc = IF initialisationPromise = "resolved"
                               THEN "ready" ELSE "awaitReady"
     /\ (started /\ initialisationPromise = "unset") =>
           /\ initialisationPromise' # "unset"
           /\ tasks'[n].pc \in {"awaitInit", "ready"}
     /\ Cardinality({t \in tooling(tasks') : tasks'[t].pc = "awaitInit"}) =
           IF initialisationPromise' = "pending" THEN 1 ELSE 0
     /\ \A t \in tooling(tasks) :
           (tasks[t].pc # "ready" /\ tasks'[t].pc = "ready") =>
              initialisationPromise' = "resolved"
     /\ \A t \in tooling(tasks) :
           tasks'[t].wait # tasks[t].wait =>
              \/ tasks'[t].pc = "awaitInit"
              \/ tasks[t].pc = "ready" /\ initialisationPromise = "resolved"
     /\ (initialisationPromise = "pending" /\ initialisationPromise' = "unset")
           => \A t \in waiting(tasks) : tasks'[t].pc = "failed"
    ]_vars

\* two operations of the instance have sent their requests after the one
\* initialize request of the first
C28_Witness ==
  /\ Len(tasks) = 2
  /\ \A t \in DOMAIN tasks :
        /\ tasks[t].kind = "tooling"
        /\ tasks[t].pc = "awaitCall"
  /\ tasks[1].wait # tasks[2].wait
  /\ Cardinality({c \in DOMAIN calls : calls[c].action = "initialize"}) = 1

\* C29: summarizeText returns the original text when the summary is
\* absent or whitespace-only, ensureCorrectFileContent the original content
\* when the cleaned content is absent or empty, the web search and web
\* fetch results the operation's fixed fallback for every field that is
\* absent or whitespace-only; a non-blank worker value is returned as it
\* came.
C29_BlankPayloadFallsBack ==
  toolingResult # <<>> =>
    LET r == toolingResult
        get(name) == IF r.payload.defined THEN r.payload[name]
                     ELSE "undefined"
        absent(v) == v \in {"undefined", "null"}
        blank(v) == absent(v) \/ v \in {"", " ", "  "}
        expect(v, fallback) == IF blank(v) THEN fallback ELSE v IN
    CASE r.op = "summarizeText" ->
           r.result = expect(get("summary"), "original")
      [] r.op = "ensureCorrectFileContent" ->
           /\ (absent(get("content")) \/ get("content") = "")
                 => r.result = "original"
           /\ ~blank(get("content")) => r.result = get("content")
      [] r.op = "performWebSearch" ->
           /\ r.result.llmContent =
                 expect(get("llmContent"), "Unable to search for query.")
           /\ r.result.returnDisplay =
                 expect(get("returnDisplay"), "Web search failed.")
      [] r.op = "performWebFetch" ->
           /\ r.result.llmContent =
                 expect(get("llmContent"),
                        "Web fetch is unavailable for the Grok provider. Please try again later.")
           /\ r.result.returnDisplay =
                 expect(get("returnDisplay"),
                        "Unable to fetch external content.")

\* a web search whose llmContent came whitespace-only and whose
\* returnDisplay came padded: the first fell back, the second was kept
C29_Witness ==
  /\ toolingResult # <<>>
  /\ toolingResult.op = "performWebSearch"
  /\ toolingResult.payload.defined
  /\ toolingResult.payload.llmContent = "  "
  /\ toolingResult.payload.returnDisplay = " text "
  /\ toolingResult.result.llmContent = "Unable to search for query."
  /\ toolingResult.result.returnDisplay = " text "

\* C30: the stream generator holds at most one worker event that it has
\* received and not yet yielded, however slowly its consumer pulls.
C30_AtMostOneEventHeld ==
  \A c \in DOMAIN gens : Len(gens[c].queue) <= 1

\* C31: the exit of a process that dispose() or shutdown() has detached
\* and that a later call has replaced changes nothing of the bridge: the
\* correlations of the new process stay pending and registered, the bridge
\* keeps its reference to the new process and its initialized flag.
C31_StaleExitAffectsOldOnly ==
  [][\A p \in DOMAIN procs :
        (/\ ~procs[p].exited
         /\ procs'[p].exited
         /\ procs[p].killed
         /\ child # 0
         /\ child # p) =>
           /\ child' = child
           /\ pending' = pending
           /\ initialized' = initialized
           /\ \A c \in DOMAIN calls :
                 calls[c].proc = child => calls'[c].st = calls[c].st
    ]_vars

C33_InitializedMeansHandshaken ==
  initialized => child # 0 /\ Handshaken(child)

\* C34: at most one initialize request is written to a worker process,
\* however many operations call ensureInitialised before the first
\* handshake has completed.
C34_OneInitializePerProcess ==
  \A p \in DOMAIN procs :
     Cardinality({c \in DOMAIN calls :
                    calls[c].action = "initialize" /\ calls[c].proc = p}) <= 1

\* C35: an event is emitted on a call's stream only while its promise is
\* unsettled and its stream has not ended; a settled call's stream gets no
\* further event, whatever lines naming its requestId arrive.
C35_EventsBeforeTerminal ==
  [][\A c \in DOMAIN calls :
        /\ calls'[c].emitted # calls[c].emitted =>
              /\ calls[c].st = "pending"
              /\ calls'[c].st = "pending"
              /\ calls[c].nEnd = 0
              /\ calls[c].fin = "idle"
        /\ calls'[c].late = 0
    ]_vars

\* a call that emitted an event, was resolved and ended, and for which an
\* event line arrived afterwards and was dropped
C35_Witness ==
  \E c \in DOMAIN calls :
     /\ calls[c].emitted # <<>>
     /\ calls[c].st = "resolved"
     /\ calls[c].nEnd = 1
     /\ dropped = <<"event", calls[c].requestId>>

\* C36: a bridge call made with a signal that is already aborted is
\* rejected with the abort error, spawns no process, writes no request and
\* leaves the pending map as it was.
C36_AbortedCallTouchesNothing ==
  [][\A t \in DOMAIN tasks :
        (/\ tasks[t].aborted
         /\ tasks[t].pc = "ready"
         /\ tasks'[t].pc # "ready") =>
           /\ tasks'[t].pc = "failed"
           /\ pending' = pending
           /\ procs' = procs
           /\ Len(calls') = Len(calls)
    ]_vars

\* C37: shutdown() called on a bridge without a child (never started,
\* exited or disposed) spawns no process and writes no request, and leaves
\* the bridge without a child, uninitialized and with nothing pending.
C37_ShutdownWithoutWorker ==
  [][(/\ child = 0
      /\ Len(tasks') = Len(tasks) + 1
      /\ tasks'[Len(tasks')].kind = "shutdown") =>
         /\ procs' = procs
         /\ calls' = calls
         /\ child' = 0
         /\ ~initialized'
         /\ pending' = <<>>
    ]_vars

\* C38: the tracked calls mirror the scheduler's latest snapshot one to one
\* (same ids in the same order, same status, no id twice); a snapshot
\* update gives each call the submitted flag its id had before, false for
\* a new id; a step that sets a flag is a marking, which leaves the
\* snapshot alone and changes nothing of the tracked calls but flags.
C38_TrackedMirrorsSnapshot ==
  [][LET old == toolCallsForDisplay
         new == toolCallsForDisplay'
         flagOf(id) == \E j \in DOMAIN old :
                          old[j].callId = id /\ old[j].responseSubmittedToGemini
         marking == \E k \in DOMAIN new : new[k].responseSubmittedToGemini
                                            /\ ~flagOf(new[k].callId) IN
     /\ DOMAIN new = DOMAIN toolCalls'
     /\ \A k \in DOMAIN new :
           /\ new[k].callId = toolCalls'[k].callId
           /\ new[k].status = toolCalls'[k].status
           /\ \A j \in DOMAIN new : new[j].callId = new[k].callId => j = k
     /\ IF marking
          THEN /\ toolCalls' = toolCalls
               /\ onComplete' = onComplete
               /\ DOMAIN new = DOMAIN old
               /\ \A k \in DOMAIN new :
                     /\ [new[k] EXCEPT !.responseSubmittedToGemini = FALSE]
                          = [old[k] EXCEPT !.responseSubmittedToGemini = FALSE]
                     /\ old[k].responseSubmittedToGemini
                          => new[k].responseSubmittedToGemini
          ELSE \A k \in DOMAIN new :
                 new[k].responseSubmittedToGemini = flagOf(new[k].callId)
    ]_vars

\* a call that succeeded and is marked as submitted, beside a call of the
\* same batch that is executing and is not
C38_Witness ==
  \E j, k \in DOMAIN toolCallsForDisplay :
     /\ toolCallsForDisplay[j].status = "success"
     /\ toolCallsForDisplay[j].responseSubmittedToGemini
     /\ toolCallsForDisplay[k].status = "executing"
     /\ toolCallsForDisplay[k].liveOutput = "chunk1"
     /\ ~toolCallsForDisplay[k].responseSubmittedToGemini

\* C39: /agent calls setModelProvider only with a registered id that is
\* not the active provider; the model.provider setting is written only in
\* a step in which setModelProvider was called and did not throw, and then
\* with the activated id; when setModelProvider throws the answer is an
\* error and the setting stays; when the target is already active neither
\* happens.
C39_PersistAfterActivation ==
  [][LET called == setModelProvider' # setModelProvider
         target == setModelProvider'[Len(setModelProvider')] IN
     /\ called =>
           /\ setModelProvider' = Append(setModelProvider, target)
           /\ target \in providerIds
           /\ target # activeProviderId
           /\ \/ /\ message' = <<"info", "Switched active model provider to",
                                  target>>
                 /\ activeProviderId' = target
                 /\ persisted' \in {persisted, target}
              \/ /\ message' = <<"error", "Failed to activate provider",
                                  target>>
                 /\ persisted' = persisted
     /\ persisted' # persisted =>
           /\ called
           /\ message'[1] = "info"
           /\ persisted' = target
     /\ ~called => persisted' = persisted /\ activeProviderId' = activeProviderId
     /\ \A tokens \in RawArgs, activates, hasSetValue \in BOOLEAN :
           (/\ tokens # <<>>
            /\ targetOf(tokens) = activeProviderId
            /\ agentAction(tokens, activates, hasSetValue))
              => /\ ~called
                 /\ message' = <<"info", "is already active", activeProviderId>>
    ]_vars

\* grok was activated and persisted, then a switch back to google-genai
\* threw: the command answered with the error and the setting is still grok
C39_Witness ==
  /\ setModelProvider = <<"grok", "google-genai">>
  /\ message = <<"error", "Failed to activate provider", "google-genai">>
  /\ persisted = "grok"
  /\ activeProviderId = "grok"

====
